---- MODULE Spec2Model ----
(***************************************************************************)
(* Conv2dFunctor<DeviceType::NEON, float>::operator() of                   *)
(* mace/kernels/arm/conv_2d.cc as a state machine.                         *)
(*                                                                         *)
(* One operator instance (the functor) is constructed with its strides,    *)
(* dilations, padding policy and the is_filter_transformed_ flag, and is   *)
(* then invoked repeatedly.  What survives an invocation is the            *)
(* transformed-filter cache (transformed_filter_), the scratch arena       *)
(* (scratch_), and the caller's filter and output tensors.                 *)
(*                                                                         *)
(* C++ vectors are 0-based, TLA+ sequences 1-based: shape[k] of the code   *)
(* is shape[k+1] here.  Shapes are NCHW (filter: OIHW, or TOC when it is   *)
(* pre-transformed).                                                       *)
(***************************************************************************)
EXTENDS Integers, Sequences, FiniteSets, TLC

VARIABLES
  strides_,               \* functor configuration, <<h, w>>
  dilations_,             \* functor configuration, <<h, w>>
  paddings_,              \* explicit total paddings <<h, w>>, or <<>> when empty
  padding_type_,          \* "VALID" | "SAME", used when paddings_ is empty
  is_filter_transformed_, \* the filter handed in is already in the Winograd domain
  activation_,            \* "NOOP" | "RELU" | "RELUX"
  relux_max_limit_,       \* the limit of RELUX
  transformed_filter_,    \* the cache: [dims, data]
  scratch_,               \* the arena: [size, offset]
  filter,                 \* caller's filter tensor: [shape, data]
  output,                 \* caller's output tensor: [shape, state]
  call                    \* what the last invocation did

vars == <<strides_, dilations_, paddings_, padding_type_, is_filter_transformed_,
          activation_, relux_max_limit_,
          transformed_filter_, scratch_, filter, output, call>>

(***************************************************************************)
(* Bounds and input sets.                                                  *)
(***************************************************************************)
MaxPad == 3

SizeofFloat == 4

StridePairs == {<<1, 1>>, <<2, 2>>, <<1, 2>>}
DilationPairs == {<<1, 1>>, <<2, 2>>, <<1, 2>>}
FilterExtents == {1, 3}
ChannelCounts == {7, 8}
InputExtents == {9, 17}
TileAreas == {16, 64}
FilterContents == {"f0", "f1"}
\* what a freshly resized, never written buffer may hold
UninitContents == {"junk0", "junk1"}

Max(a, b) == IF a >= b THEN a ELSE b

Product(s) == IF Len(s) = 0 THEN 1
              ELSE IF Len(s) = 1 THEN s[1]
              ELSE IF Len(s) = 2 THEN s[1] * s[2]
              ELSE IF Len(s) = 3 THEN s[1] * s[2] * s[3]
              ELSE s[1] * s[2] * s[3] * s[4]

(***************************************************************************)
(* Collaborators that live outside conv_2d.cc.                             *)
(***************************************************************************)
RoundUp(a, b) == ((a + b - 1) \div b) * b

\* output extent = floor((in + pad - dilation*(filter-1) - 1)/stride) + 1
OutExtent(in, pad, k, d, s) == ((in + pad - d * (k - 1) - 1) \div s) + 1

CalcNCHWOutputSize(input_shape, filter_shape, pads, dilations, strides) ==
  << input_shape[1], filter_shape[1],
     OutExtent(input_shape[3], pads[1], filter_shape[3], dilations[1], strides[1]),
     OutExtent(input_shape[4], pads[2], filter_shape[4], dilations[2], strides[2]) >>

PolicyOut(in, k, d, s, type) ==
  IF type = "VALID" THEN OutExtent(in, 0, k, d, s) ELSE ((in - 1) \div s) + 1

PolicyPad(in, k, d, s, type) ==
  IF type = "VALID" THEN 0
  ELSE Max(0, (PolicyOut(in, k, d, s, type) - 1) * s + d * (k - 1) + 1 - in)

CalcNCHWPaddingAndOutputSize(input_shape, filter_shape, dilations, strides, type) ==
  [ output_shape |->
      << input_shape[1], filter_shape[1],
         PolicyOut(input_shape[3], filter_shape[3], dilations[1], strides[1], type),
         PolicyOut(input_shape[4], filter_shape[4], dilations[2], strides[2], type) >>,
    paddings |->
      << PolicyPad(input_shape[3], filter_shape[3], dilations[1], strides[1], type),
         PolicyPad(input_shape[4], filter_shape[4], dilations[2], strides[2], type) >> ]

\* Buffer contents are named by who wrote them and from what.  The filter
\* transforms: the result is determined by the routine and the raw filter.
TransformFilter4x4(filter_data) == [by |-> "TransformFilter4x4", of |-> filter_data]
TransformFilter8x8(filter_data) == [by |-> "TransformFilter8x8", of |-> filter_data]
\* a buffer the caller filled, and one nobody has written since it was allocated
CallerData(filter_data) == [by |-> "caller", of |-> filter_data]
Unwritten(junk) == [by |-> "nobody", of |-> junk]

\* ScratchBuffer: Rewind, GrowSize (never shrinks), Scratch (bump allocation).
Rewind(s) == [s EXCEPT !.offset = 0]
GrowSize(s, size) == [s EXCEPT !.size = Max(s.size, size)]
Scratch(s, size) == [buf |-> [offset |-> s.offset, size |-> size],
                     arena |-> [s EXCEPT !.offset = s.offset + size]]

(***************************************************************************)
(* Conv2dNCHW, lines 23-64: the input rows and columns the loop nest reads *)
(* (ih, iw of lines 49-50, over every h, w, kh, kw of lines 42-48).        *)
(***************************************************************************)
Conv2dNCHWRows(out_height, filter_height, stride_h, dilation_h) ==
  { h * stride_h + kh * dilation_h :
      h \in 0..(out_height - 1), kh \in 0..(filter_height - 1) }

Conv2dNCHWCols(out_width, filter_width, stride_w, dilation_w) ==
  { w * stride_w + kw * dilation_w :
      w \in 0..(out_width - 1), kw \in 0..(filter_width - 1) }

(***************************************************************************)
(* operator(): shapes, lines 108-171.                                      *)
(***************************************************************************)
FilterShape(shape, transformed) ==
  IF transformed THEN <<shape[2], shape[3], 3, 3>> ELSE shape

Resolve(input_shape, filter_shape) ==
  IF paddings_ = <<>>
  THEN CalcNCHWPaddingAndOutputSize(input_shape, filter_shape, dilations_,
                                    strides_, padding_type_)
  ELSE [ output_shape |-> CalcNCHWOutputSize(input_shape, filter_shape, paddings_,
                                             dilations_, strides_),
         paddings |-> paddings_ ]

\* mutant: the input-channel check of line 150 is missing
ChannelsMatch_OutputOnly(filter_shape, channels, input_channels) ==
  filter_shape[1] = channels

ChannelsMatch(filter_shape, channels, input_channels) ==
  filter_shape[1] = channels /\ filter_shape[2] = input_channels

BatchMatch(batch, input_batch) == batch = input_batch

\* mutant: the odd pixel goes to the leading side
PadLeading_RoundUp(p) == (p + 1) \div 2

PadLeading(p) == p \div 2
PadTrailing(p) == p - PadLeading(p)

(***************************************************************************)
(* operator(): strategy flags, lines 180-199.                              *)
(***************************************************************************)
\* mutant: the channel threshold of line 182 is missing
UseWinograd_NoChannelCheck(transformed, fh, fw, sh, sw, dh, dw, ic, oc) ==
  transformed \/ (fh = 3 /\ fw = 3 /\ sh = 1 /\ sw = 1 /\ dh = 1 /\ dw = 1)

UseWinograd(transformed, fh, fw, sh, sw, dh, dw, ic, oc) ==
  transformed \/ (fh = 3 /\ fw = 3 /\ sh = 1 /\ sw = 1 /\ dh = 1 /\ dw = 1
                  /\ ic >= 8 /\ oc >= 8)

UseNeon3x3S1(fh, fw, sh, sw, dh, dw) ==
  fh = 3 /\ fw = 3 /\ sh = 1 /\ sw = 1 /\ dh = 1 /\ dw = 1

UseNeon3x3S2(fh, fw, sh, sw, dh, dw) ==
  fh = 3 /\ fw = 3 /\ sh = 2 /\ sw = 2 /\ dh = 1 /\ dw = 1

UseNeon1x1S1(fh, fw, sh, sw, dh, dw) ==
  fh = 1 /\ fw = 1 /\ sh = 1 /\ sw = 1 /\ dh = 1 /\ dw = 1

WinogradOutTileSize(input_height, input_width) ==
  IF input_height > 16 /\ input_width > 16 THEN 6 ELSE 2

(***************************************************************************)
(* operator(): tiling extension, lines 161-251.                            *)
(***************************************************************************)
TilingBranch(use_winograd, use_neon_3x3_s1, use_neon_3x3_s2) ==
  IF use_winograd THEN "Winograd"
  ELSE IF use_neon_3x3_s1 THEN "K3x3S1"
  ELSE IF use_neon_3x3_s2 THEN "K3x3S2"
  ELSE "None"

ExtraOutputHeight(branch, height, tile) ==
  IF branch = "Winograd" THEN RoundUp(height, tile)
  ELSE IF branch = "K3x3S1" THEN RoundUp(height, 2)
  ELSE height

ExtraOutputWidth(branch, width, tile) ==
  IF branch = "Winograd" THEN RoundUp(width, tile)
  ELSE IF branch = "K3x3S1" THEN RoundUp(width, 4)
  ELSE IF branch = "K3x3S2" THEN RoundUp(width, 4)
  ELSE width

ExtraInput(branch, padded_input, extra_output) ==
  IF branch = "Winograd" THEN Max(padded_input, extra_output + 2)
  ELSE IF branch = "K3x3S1" THEN Max(padded_input, extra_output + 2)
  ELSE IF branch = "K3x3S2" THEN Max(padded_input, (extra_output - 1) * 2 + 3)
  ELSE padded_input

\* pad_bottom / pad_right after the branch has run
ExtendTrailing(pad_trailing, extra_input, padded_input) ==
  IF extra_input # padded_input
  THEN pad_trailing + (extra_input - padded_input)
  ELSE pad_trailing

(***************************************************************************)
(* operator(): scratch sizes, lines 253-283.                               *)
(***************************************************************************)
TransformedSize(use_winograd, shape) ==
  IF use_winograd THEN Product(shape) * SizeofFloat ELSE 0

NeedPaddedInputScratch(extra_input_height, input_height, extra_input_width, input_width) ==
  extra_input_height # input_height \/ extra_input_width # input_width

\* mutant: the right pad is left out of the padded-input size
PaddedInputBytes_NoRightPad(batch, input_channels, input_height, pad_top, pad_bottom, input_width, pad_left, pad_right) ==
  batch * input_channels * (input_height + pad_top + pad_bottom)
    * (input_width + pad_left) * SizeofFloat

PaddedInputBytes(batch, input_channels, input_height, pad_top, pad_bottom, input_width, pad_left, pad_right) ==
  batch * input_channels * (input_height + pad_top + pad_bottom)
    * (input_width + pad_left + pad_right) * SizeofFloat

NeedPaddedOutputScratch(extra_output_height, height, extra_output_width, width) ==
  extra_output_height # height \/ extra_output_width # width

PaddedOutputBytes(batch, channels, extra_output_height, extra_output_width) ==
  batch * channels * extra_output_height * extra_output_width * SizeofFloat

(***************************************************************************)
(* Everything operator() computes from the shapes before it touches the    *)
(* arena: lines 137-283.                                                   *)
(***************************************************************************)
Plan(input_shape, filter_shape, output_shape, paddings) ==
  LET batch == output_shape[1]
      channels == output_shape[2]
      height == output_shape[3]
      width == output_shape[4]
      input_channels == input_shape[2]
      input_height == input_shape[3]
      input_width == input_shape[4]
      filter_h == filter_shape[3]
      filter_w == filter_shape[4]
      padded_input_height == input_height + paddings[1]
      padded_input_width == input_width + paddings[2]
      pad_top == PadLeading(paddings[1])
      pad_left == PadLeading(paddings[2])
      use_winograd == UseWinograd(is_filter_transformed_, filter_h, filter_w,
                                  strides_[1], strides_[2],
                                  dilations_[1], dilations_[2],
                                  input_channels, channels)
      use_neon_3x3_s1 == UseNeon3x3S1(filter_h, filter_w, strides_[1], strides_[2],
                                      dilations_[1], dilations_[2])
      use_neon_3x3_s2 == UseNeon3x3S2(filter_h, filter_w, strides_[1], strides_[2],
                                      dilations_[1], dilations_[2])
      use_neon_1x1_s1 == UseNeon1x1S1(filter_h, filter_w, strides_[1], strides_[2],
                                      dilations_[1], dilations_[2])
      tile == WinogradOutTileSize(input_height, input_width)
      branch == TilingBranch(use_winograd, use_neon_3x3_s1, use_neon_3x3_s2)
      extra_output_height == ExtraOutputHeight(branch, height, tile)
      extra_output_width == ExtraOutputWidth(branch, width, tile)
      extra_input_height == ExtraInput(branch, padded_input_height, extra_output_height)
      extra_input_width == ExtraInput(branch, padded_input_width, extra_output_width)
      pad_bottom == ExtendTrailing(PadTrailing(paddings[1]), extra_input_height,
                                   padded_input_height)
      pad_right == ExtendTrailing(PadTrailing(paddings[2]), extra_input_width,
                                  padded_input_width)
      tile_count == (extra_output_height \div tile) * (extra_output_width \div tile)
      in_tile_area == (tile + 2) * (tile + 2)
      transformed_input_shape ==
        IF use_winograd THEN <<in_tile_area, batch, input_channels, tile_count>> ELSE <<>>
      transformed_output_shape ==
        IF use_winograd THEN <<in_tile_area, batch, channels, tile_count>> ELSE <<>>
      transformed_filter_shape ==
        IF use_winograd THEN <<in_tile_area, channels, input_channels>> ELSE <<>>
      transformed_input_size == TransformedSize(use_winograd, transformed_input_shape)
      transformed_output_size == TransformedSize(use_winograd, transformed_output_shape)
      padded_input_size ==
        IF NeedPaddedInputScratch(extra_input_height, input_height,
                                  extra_input_width, input_width)
        THEN PaddedInputBytes(batch, input_channels, input_height, pad_top, pad_bottom,
                              input_width, pad_left, pad_right)
        ELSE 0
      padded_output_size ==
        IF NeedPaddedOutputScratch(extra_output_height, height,
                                   extra_output_width, width)
        THEN PaddedOutputBytes(batch, channels, extra_output_height, extra_output_width)
        ELSE 0
  IN [ batch |-> batch, channels |-> channels, height |-> height, width |-> width,
       input_channels |-> input_channels,
       input_height |-> input_height, input_width |-> input_width,
       filter_h |-> filter_h, filter_w |-> filter_w,
       paddings |-> paddings,
       padded_input_height |-> padded_input_height,
       padded_input_width |-> padded_input_width,
       pad_top |-> pad_top, pad_bottom |-> pad_bottom,
       pad_left |-> pad_left, pad_right |-> pad_right,
       use_winograd |-> use_winograd, use_neon_3x3_s1 |-> use_neon_3x3_s1,
       use_neon_3x3_s2 |-> use_neon_3x3_s2, use_neon_1x1_s1 |-> use_neon_1x1_s1,
       winograd_out_tile_size |-> tile, branch |-> branch,
       extra_output_height |-> extra_output_height,
       extra_output_width |-> extra_output_width,
       extra_input_height |-> extra_input_height,
       extra_input_width |-> extra_input_width,
       transformed_input_shape |-> transformed_input_shape,
       transformed_output_shape |-> transformed_output_shape,
       transformed_filter_shape |-> transformed_filter_shape,
       transformed_input_size |-> transformed_input_size,
       transformed_output_size |-> transformed_output_size,
       padded_input_size |-> padded_input_size,
       padded_output_size |-> padded_output_size,
       total_scratch_size |-> transformed_input_size + transformed_output_size
                              + padded_input_size + padded_output_size ]

(***************************************************************************)
(* operator(): the arena, lines 284-291.                                   *)
(***************************************************************************)
Carve(arena, p) ==
  LET grown == GrowSize(Rewind(arena), p.total_scratch_size)
      a1 == Scratch(grown, p.transformed_input_size)
      a2 == Scratch(a1.arena, p.transformed_output_size)
      a3 == Scratch(a2.arena, p.padded_input_size)
      a4 == Scratch(a3.arena, p.padded_output_size)
  IN [ arena |-> a4.arena,
       bufs |-> <<a1.buf, a2.buf, a3.buf, a4.buf>> ]

(***************************************************************************)
(* operator(): the transformed-filter cache, lines 297-322.  junk is what  *)
(* the freshly resized cache tensor holds before anything is written.      *)
(***************************************************************************)
TransformRoutine(tile) ==
  IF tile = 2 THEN "TransformFilter4x4" ELSE "TransformFilter8x8"

Transformed(tile, filter_data) ==
  IF tile = 2 THEN TransformFilter4x4(filter_data) ELSE TransformFilter8x8(filter_data)

CacheIsEmpty(cache) == Len(cache.dims) = 0

FilterCache(cache, p, junk) ==
  IF CacheIsEmpty(cache)
  THEN LET resized == [dims |-> p.transformed_filter_shape, data |-> Unwritten(junk)]
       IN IF is_filter_transformed_
          THEN [ cache |-> resized,
                 ptr |-> [buf |-> "filter", data |-> CallerData(filter.data),
                          elems |-> Product(filter.shape)],
                 transforms |-> <<>> ]
          ELSE LET filled ==
                     [resized EXCEPT
                        !.data = Transformed(p.winograd_out_tile_size, filter.data)]
               IN [ cache |-> filled,
                    ptr |-> [buf |-> "transformed_filter_", data |-> filled.data,
                             elems |-> Product(filled.dims)],
                    transforms |-> <<TransformRoutine(p.winograd_out_tile_size)>> ]
  ELSE [ cache |-> cache,
         ptr |-> [buf |-> "transformed_filter_", data |-> cache.data,
                  elems |-> Product(cache.dims)],
         transforms |-> <<>> ]

(***************************************************************************)
(* operator(): dispatch, lines 293-393.                                    *)
(***************************************************************************)
Dispatch(use_winograd, use_neon_3x3_s1, use_neon_3x3_s2, use_neon_1x1_s1) ==
  IF use_winograd THEN "WinoGradConv3x3s1"
  ELSE IF use_neon_3x3_s1 THEN "Conv2dNeonK3x3S1"
  ELSE IF use_neon_3x3_s2 THEN "Conv2dNeonK3x3S2"
  ELSE IF use_neon_1x1_s1 THEN "Conv2dNeonK1x1S1"
  ELSE "Conv2dNCHW"

\* the shape arguments the chosen kernel is called with
KernelArgs(p) ==
  [ batch |-> p.batch,
    in_height |-> p.extra_input_height, in_width |-> p.extra_input_width,
    in_channels |-> p.input_channels,
    out_height |-> p.extra_output_height, out_width |-> p.extra_output_width,
    out_channels |-> p.channels,
    filter_height |-> p.filter_h, filter_width |-> p.filter_w,
    stride_h |-> strides_[1], stride_w |-> strides_[2],
    dilation_h |-> dilations_[1], dilation_w |-> dilations_[2],
    winograd_out_tile_size |-> p.winograd_out_tile_size ]

(***************************************************************************)
(* operator(): padding of input and output, lines 395-416.                 *)
(***************************************************************************)
\* mutant: >= for != in the test of line 397
NeedPadInput_OrEqual(extra_input_height, input_height, extra_input_width, input_width) ==
  extra_input_height >= input_height \/ extra_input_width >= input_width

NeedPadInput(extra_input_height, input_height, extra_input_width, input_width) ==
  extra_input_height # input_height \/ extra_input_width # input_width

\* the shape the materializer gives its result
ConstructNCHWInputWithSpecificPadding(input_shape, pad_top, pad_bottom, pad_left, pad_right) ==
  << input_shape[1], input_shape[2],
     input_shape[3] + pad_top + pad_bottom,
     input_shape[4] + pad_left + pad_right >>

PadInput(input_shape, p) ==
  IF NeedPadInput(p.extra_input_height, p.input_height,
                  p.extra_input_width, p.input_width)
  THEN [ buf |-> "padded_input",
         shape |-> ConstructNCHWInputWithSpecificPadding(
                     input_shape, p.pad_top, p.pad_bottom, p.pad_left, p.pad_right),
         materializer |-> << <<p.pad_top, p.pad_bottom, p.pad_left, p.pad_right>> >> ]
  ELSE [ buf |-> "input", shape |-> input_shape, materializer |-> <<>> ]

NeedPadOutput(extra_output_height, height, extra_output_width, width) ==
  extra_output_height # height \/ extra_output_width # width

\* mutant: output->Clear() of line 135 is missing
ResizeWithoutClear(output_shape) == [shape |-> output_shape, state |-> "stale"]

\* output tensor after lines 134-135
ResizeAndClear(output_shape) == [shape |-> output_shape, state |-> "zero"]

PadOutput(out, p) ==
  IF NeedPadOutput(p.extra_output_height, p.height, p.extra_output_width, p.width)
  THEN [ buf |-> "padded_output",
         shape |-> <<p.batch, p.channels, p.extra_output_height, p.extra_output_width>>,
         state |-> "zero" ]
  ELSE [ buf |-> "output", shape |-> out.shape, state |-> out.state ]

Bytes(shape) == Product(shape) * SizeofFloat

\* byte sizes the four scratch tensors end up with
FinalBytes(p, pad_input, pad_output) ==
  << IF p.use_winograd THEN Bytes(p.transformed_input_shape) ELSE 0,
     IF p.use_winograd THEN Bytes(p.transformed_output_shape) ELSE 0,
     IF pad_input.buf = "padded_input" THEN Bytes(pad_input.shape) ELSE 0,
     IF pad_output.buf = "padded_output" THEN Bytes(pad_output.shape) ELSE 0 >>

(***************************************************************************)
(* The state machine of shapes and buffers.  Spec follows what each call   *)
(* computes about extents, pads, scratch and the cache, and which routines *)
(* it calls on which buffers; element values are followed by SpecData      *)
(* below, on small tensors.                                                *)
(***************************************************************************)
NullTensor == [null |-> TRUE, shape |-> <<>>]

Tensor(shape) == [null |-> FALSE, shape |-> shape]

\* the inputs a caller feeds an instance whose filter has in_channels ic:
\* every extent with the right channel count, and one with a wrong one
InputTensors(ic) ==
  { Tensor(<<1, ic, h, w>>) : h \in InputExtents, w \in InputExtents }
    \cup { Tensor(<<1, c, 9, 9>>) : c \in ChannelCounts \ {ic} }

\* (input, filter is null, output is null)
CallArgs(ic) ==
  { <<t, FALSE, FALSE>> : t \in InputTensors(ic) }
    \cup { <<NullTensor, FALSE, FALSE>>,
           <<Tensor(<<1, ic, 9, 9>>), TRUE, FALSE>>,
           <<Tensor(<<1, ic, 9, 9>>), FALSE, TRUE>> }

PaddingSpecs ==
  {<<>>} \cup { <<ph, 0>> : ph \in 0..MaxPad } \cup { <<ph, ph>> : ph \in 0..MaxPad }

FilterTensors(transformed) ==
  IF transformed
  THEN { [shape |-> <<t, c, c>>, data |-> "f0"] :
           t \in TileAreas, c \in ChannelCounts }
  ELSE { [shape |-> <<o, c, kh, kw>>, data |-> "f0"] :
           o \in ChannelCounts, c \in ChannelCounts,
           kh \in FilterExtents, kw \in FilterExtents }

\* the caller's output tensor: fresh, or still shaped by an earlier use
OutputTensors ==
  { [shape |-> <<>>, state |-> "empty"],
    [shape |-> <<2, 3, 5, 5>>, state |-> "assembled"] }

Init ==
  /\ strides_ \in StridePairs
  /\ dilations_ \in DilationPairs
  /\ paddings_ \in PaddingSpecs
  /\ padding_type_ \in (IF paddings_ = <<>> THEN {"VALID", "SAME"} ELSE {"VALID"})
  /\ is_filter_transformed_ \in BOOLEAN
  /\ activation_ = "NOOP"
  /\ relux_max_limit_ = 0
  /\ filter \in FilterTensors(is_filter_transformed_)
  /\ transformed_filter_ = [dims |-> <<>>, data |-> Unwritten("junk0")]
  /\ scratch_ = [size |-> 0, offset |-> 0]
  /\ output \in OutputTensors
  /\ call = [status |-> "none"]

\* what a call that died in a MACE_CHECK leaves behind
Fatal(check, input, filter_null, output_null) ==
  [ status |-> "fatal", check |-> check,
    input |-> input, filter_null |-> filter_null, output_null |-> output_null,
    transform_calls |-> <<>>, materializer_calls |-> <<>>, kernel_calls |-> <<>> ]

\* lines 284-418 of a call whose checks passed, p being what lines 137-283 computed
Run(p, input, out, filter_shape, junk) ==
  LET carved == Carve(scratch_, p)
      fc == IF p.use_winograd
            THEN FilterCache(transformed_filter_, p, junk)
            ELSE [ cache |-> transformed_filter_,
                   ptr |-> [buf |-> "filter", data |-> CallerData(filter.data),
                            elems |-> Product(filter.shape)],
                   transforms |-> <<>> ]
      pad_input == PadInput(input.shape, p)
      pad_output == PadOutput(out, p)
  IN [ arena |-> carved.arena,
       cache |-> fc.cache,
       call |-> [ status |-> "done",
                  input |-> input, filter_null |-> FALSE, output_null |-> FALSE,
                  filter_shape |-> filter_shape,
                  grown |-> carved.arena.size,
                  carved |-> carved.bufs,
                  final_bytes |-> FinalBytes(p, pad_input, pad_output),
                  transform_calls |-> fc.transforms,
                  filter_ptr |-> fc.ptr,
                  materializer_calls |-> pad_input.materializer,
                  pad_input |-> [buf |-> pad_input.buf, shape |-> pad_input.shape],
                  pad_output |-> pad_output,
                  kernel_calls |-> << Dispatch(p.use_winograd, p.use_neon_3x3_s1,
                                               p.use_neon_3x3_s2, p.use_neon_1x1_s1) >>,
                  kernel_args |-> KernelArgs(p) ] @@ p ]

\* A fatal check aborts the process: nothing is invoked after it.
Invoke(input, filter_null, output_null, junk) ==
  /\ call.status # "fatal"
  /\ UNCHANGED <<strides_, dilations_, paddings_, padding_type_,
                 is_filter_transformed_, activation_, relux_max_limit_, filter>>
  /\ IF input.null \/ filter_null \/ output_null
     THEN /\ call' = Fatal("MACE_CHECK_NOTNULL", input, filter_null, output_null)
          /\ UNCHANGED <<transformed_filter_, scratch_, output>>
     ELSE \E filter_shape \in {FilterShape(filter.shape, is_filter_transformed_)} :
          \E r \in {Resolve(input.shape, filter_shape)} :
          \E out \in {ResizeAndClear(r.output_shape)} :
             /\ r.output_shape[3] >= 1
             /\ r.output_shape[4] >= 1
             /\ IF /\ ChannelsMatch(filter_shape, out.shape[2], input.shape[2])
                   /\ BatchMatch(out.shape[1], input.shape[1])
                THEN \E p \in {Plan(input.shape, filter_shape, out.shape, r.paddings)} :
                     \E run \in {Run(p, input, out, filter_shape, junk)} :
                        /\ scratch_' = run.arena
                        /\ transformed_filter_' = run.cache
                        /\ output' = [out EXCEPT !.state = "assembled"]
                        /\ call' = run.call
                ELSE /\ call' = Fatal("MACE_CHECK", input, filter_null, output_null)
                     /\ output' = out
                     /\ UNCHANGED <<transformed_filter_, scratch_>>

\* the caller overwrites the raw filter buffer between two calls
MutateFilter ==
  /\ call.status = "done"
  /\ \E d \in FilterContents \ {filter.data} : filter' = [filter EXCEPT !.data = d]
  /\ UNCHANGED <<strides_, dilations_, paddings_, padding_type_,
                 is_filter_transformed_, activation_, relux_max_limit_,
                 transformed_filter_, scratch_, output, call>>

Next ==
  \/ \E a \in CallArgs(FilterShape(filter.shape, is_filter_transformed_)[2]),
        junk \in UninitContents :
       Invoke(a[1], a[2], a[3], junk)
  \/ MutateFilter

Spec == Init /\ [][Next]_vars

(***************************************************************************)
(* Element values.  A buffer is a function on 0..n-1, in the row-major     *)
(* NCHW order of the code.                                                 *)
(***************************************************************************)
Zeros(n) == [i \in 0..(n - 1) |-> 0]

RECURSIVE Sum(_, _)
Sum(f, n) == IF n = 0 THEN 0 ELSE f[n - 1] + Sum(f, n - 1)

\* Conv2dNCHW, lines 23-64
Conv2dNCHW(input, filt, batch, in_height, in_width, in_channels, out_height, out_width, out_channels, filter_height, filter_width, stride_h, stride_w, dilation_h, dilation_w, output_buf) ==
  [ o \in DOMAIN output_buf |->
      IF o >= batch * out_channels * out_height * out_width THEN output_buf[o]
      ELSE
        LET w == o % out_width
            h == (o \div out_width) % out_height
            m == (o \div (out_width * out_height)) % out_channels
            b == o \div (out_width * out_height * out_channels)
            term == [ k \in 0..(in_channels * filter_height * filter_width - 1) |->
                      LET kw == k % filter_width
                          kh == (k \div filter_width) % filter_height
                          c == k \div (filter_width * filter_height)
                          ih == h * stride_h + kh * dilation_h
                          iw == w * stride_w + kw * dilation_w
                          in_offset ==
                            ((b * in_channels + c) * in_height + ih) * in_width + iw
                          filter_offset ==
                            (((m * in_channels) + c) * filter_height + kh)
                              * filter_width + kw
                      IN input[in_offset] * filt[filter_offset] ]
        IN output_buf[o] + Sum(term, in_channels * filter_height * filter_width) ]

\* The fixed kernels and the Winograd multiply are outside conv_2d.cc: each
\* writes the whole working output with the convolution it is named for.
Conv2dNeonK3x3S1(input, filt, batch, in_height, in_width, in_channels, out_height, out_width, out_channels) ==
  Conv2dNCHW(input, filt, batch, in_height, in_width, in_channels,
             out_height, out_width, out_channels, 3, 3, 1, 1, 1, 1,
             Zeros(batch * out_channels * out_height * out_width))

Conv2dNeonK3x3S2(input, filt, batch, in_height, in_width, in_channels, out_height, out_width, out_channels) ==
  Conv2dNCHW(input, filt, batch, in_height, in_width, in_channels,
             out_height, out_width, out_channels, 3, 3, 2, 2, 1, 1,
             Zeros(batch * out_channels * out_height * out_width))

Conv2dNeonK1x1S1(input, filt, batch, height, width, in_channels, out_channels) ==
  Conv2dNCHW(input, filt, batch, height, width, in_channels,
             height, width, out_channels, 1, 1, 1, 1, 1, 1,
             Zeros(batch * out_channels * height * width))

WinoGradConv3x3s1(input, filt, batch, in_height, in_width, in_channels, out_channels) ==
  Conv2dNCHW(input, filt, batch, in_height, in_width, in_channels,
             in_height - 2, in_width - 2, out_channels, 3, 3, 1, 1, 1, 1,
             Zeros(batch * out_channels * (in_height - 2) * (in_width - 2)))

\* conv_func(pad_input_data, pad_output_data), lines 324-393 and 418
ConvFunc(kernel, a, filt, pad_input_data, pad_output_data) ==
  IF kernel = "WinoGradConv3x3s1"
  THEN WinoGradConv3x3s1(pad_input_data, filt, a.batch, a.in_height, a.in_width,
                         a.in_channels, a.out_channels)
  ELSE IF kernel = "Conv2dNeonK3x3S1"
  THEN Conv2dNeonK3x3S1(pad_input_data, filt, a.batch, a.in_height, a.in_width,
                        a.in_channels, a.out_height, a.out_width, a.out_channels)
  ELSE IF kernel = "Conv2dNeonK3x3S2"
  THEN Conv2dNeonK3x3S2(pad_input_data, filt, a.batch, a.in_height, a.in_width,
                        a.in_channels, a.out_height, a.out_width, a.out_channels)
  ELSE IF kernel = "Conv2dNeonK1x1S1"
  THEN Conv2dNeonK1x1S1(pad_input_data, filt, a.batch, a.in_height, a.in_width,
                        a.in_channels, a.out_channels)
  ELSE Conv2dNCHW(pad_input_data, filt, a.batch, a.in_height, a.in_width,
                  a.in_channels, a.out_height, a.out_width, a.out_channels,
                  a.filter_height, a.filter_width, a.stride_h, a.stride_w,
                  a.dilation_h, a.dilation_w, pad_output_data)

\* the materializer: zeros, with each input row copied to its offset place
PaddedInputData(input_data, input_shape, pad_top, pad_bottom, pad_left, pad_right) ==
  LET H == input_shape[3]
      W == input_shape[4]
      PH == H + pad_top + pad_bottom
      PW == W + pad_left + pad_right
  IN [ i \in 0..(input_shape[1] * input_shape[2] * PH * PW - 1) |->
         LET w == i % PW
             h == (i \div PW) % PH
             bc == i \div (PW * PH)
         IN IF h >= pad_top /\ h < pad_top + H /\ w >= pad_left /\ w < pad_left + W
            THEN input_data[(bc * H + (h - pad_top)) * W + (w - pad_left)]
            ELSE 0 ]

(***************************************************************************)
(* operator(): output assembly, lines 420-451.                             *)
(***************************************************************************)
\* source of the memcpy of lines 429-432
UnpackSrcOffset(b, c, h, channels, extra_output_height, extra_output_width) ==
  b * channels * extra_output_height * extra_output_width
    + c * extra_output_height * extra_output_width
    + h * extra_output_width

\* destination of the memcpy of lines 427-428
UnpackDstOffset(b, c, h, channels, height, width) ==
  b * channels * height * width + c * height * width + h * width

\* lines 421-437: one memcpy of `width` floats per (b, c, h)
Unpack(output_data, pad_output_data, batch, channels, height, width, extra_output_height, extra_output_width) ==
  LET rows == (0..(batch - 1)) \X (0..(channels - 1)) \X (0..(height - 1))
      Covers(r, i) ==
        /\ UnpackDstOffset(r[1], r[2], r[3], channels, height, width) <= i
        /\ i < UnpackDstOffset(r[1], r[2], r[3], channels, height, width) + width
  IN [ i \in DOMAIN output_data |->
         IF \E r \in rows : Covers(r, i)
         THEN LET r == CHOOSE r \in rows : Covers(r, i)
              IN pad_output_data[
                   UnpackSrcOffset(r[1], r[2], r[3], channels,
                                   extra_output_height, extra_output_width)
                   + (i - UnpackDstOffset(r[1], r[2], r[3], channels, height, width))]
         ELSE output_data[i] ]

\* lines 439-448
AddBias(output_data, bias_data, batch, channels, plane) ==
  [ j \in DOMAIN output_data |->
      IF j < batch * channels * plane
      THEN output_data[j] + bias_data[(j \div plane) % channels]
      ELSE output_data[j] ]

\* the activation table, applied in place to `size` elements
DoActivationAt(x, activation, limit) ==
  IF activation = "RELU" THEN Max(x, 0)
  ELSE IF activation = "RELUX" THEN (IF Max(x, 0) <= limit THEN Max(x, 0) ELSE limit)
  ELSE x

DoActivation(data, size, activation, limit) ==
  [ i \in DOMAIN data |->
      IF i < size THEN DoActivationAt(data[i], activation, limit) ELSE data[i] ]

\* mutant: the activation runs before the bias is added
Assemble_ActivationBeforeBias(output_data, pad_output_data, need_unpack, bias, bias_data, p, activation, limit) ==
  LET unpacked == IF need_unpack
                  THEN Unpack(output_data, pad_output_data, p.batch, p.channels,
                              p.height, p.width,
                              p.extra_output_height, p.extra_output_width)
                  ELSE pad_output_data
      activated == DoActivation(unpacked, p.batch * p.channels * p.height * p.width,
                                activation, limit)
  IN IF bias.null THEN activated
     ELSE AddBias(activated, bias_data, p.batch, p.channels, p.height * p.width)

\* lines 420-451: unpack, bias, activation.  Without a padded output,
\* pad_output_data is output_data itself.
Assemble(output_data, pad_output_data, need_unpack, bias, bias_data, p, activation, limit) ==
  LET unpacked == IF need_unpack
                  THEN Unpack(output_data, pad_output_data, p.batch, p.channels,
                              p.height, p.width,
                              p.extra_output_height, p.extra_output_width)
                  ELSE pad_output_data
      biased == IF bias.null THEN unpacked
                ELSE AddBias(unpacked, bias_data, p.batch, p.channels,
                             p.height * p.width)
  IN DoActivation(biased, p.batch * p.channels * p.height * p.width,
                  activation, limit)

NeedUnpack(extra_output_height, height, extra_output_width, width) ==
  extra_output_height # height \/ extra_output_width # width

(***************************************************************************)
(* The state machine of element values: the same operator(), on tensors    *)
(* small enough to compute every element.                                  *)
(***************************************************************************)
ValuePatterns == {"ones", "mixed"}

InputValues(pattern, n) ==
  [i \in 0..(n - 1) |-> IF pattern = "ones" THEN 1 ELSE (i % 3) - 1]

FilterValues(pattern, n) ==
  [i \in 0..(n - 1) |-> IF pattern = "ones" THEN 1 ELSE IF i % 2 = 0 THEN 1 ELSE -1]

BiasValues(pattern, channels) ==
  [c \in 0..(channels - 1) |-> IF pattern = "ones" THEN 2 ELSE 2 - 5 * c]

NoBias == [null |-> TRUE, data |-> "none"]
BiasTensors == {NoBias} \cup { [null |-> FALSE, data |-> d] : d \in ValuePatterns }

DataChannels == {1, 2}
DataInputs(ic) ==
  { [null |-> FALSE, shape |-> <<b, ic, hw[1], hw[2]>>, data |-> d] :
      b \in {1, 2}, hw \in {<<5, 5>>, <<4, 5>>}, d \in ValuePatterns }

InitData ==
  /\ strides_ \in {<<1, 1>>, <<2, 2>>}
  /\ dilations_ \in {<<1, 1>>, <<2, 2>>}
  /\ paddings_ \in {<<>>, <<0, 0>>, <<1, 1>>}
  /\ padding_type_ = "SAME"
  /\ is_filter_transformed_ = FALSE
  /\ activation_ \in {"NOOP", "RELU", "RELUX"}
  /\ relux_max_limit_ = (IF activation_ = "RELUX" THEN 5 ELSE 0)
  /\ filter \in { [shape |-> <<c, c, k, k>>, data |-> d] :
                    c \in DataChannels, k \in FilterExtents, d \in ValuePatterns }
  /\ transformed_filter_ = [dims |-> <<>>, data |-> Unwritten("junk0")]
  /\ scratch_ = [size |-> 0, offset |-> 0]
  /\ output = [shape |-> <<>>, state |-> "empty", data |-> <<>>]
  /\ call = [status |-> "none"]

InvokeData(input, bias, junk) ==
  /\ call.status = "none"
  /\ UNCHANGED <<strides_, dilations_, paddings_, padding_type_,
                 is_filter_transformed_, activation_, relux_max_limit_, filter>>
  /\ \E filter_shape \in {FilterShape(filter.shape, is_filter_transformed_)} :
     \E r \in {Resolve(input.shape, filter_shape)} :
     \E out \in {ResizeAndClear(r.output_shape)} :
        /\ r.output_shape[3] >= 1
        /\ r.output_shape[4] >= 1
        /\ ChannelsMatch(filter_shape, out.shape[2], input.shape[2])
        /\ BatchMatch(out.shape[1], input.shape[1])
        /\ \E p \in {Plan(input.shape, filter_shape, out.shape, r.paddings)} :
           \E run \in {Run(p, [null |-> FALSE, shape |-> input.shape], out,
                           filter_shape, junk)} :
           \E input_data \in {InputValues(input.data, Product(input.shape))} :
           \E pad_input_data \in
                { IF run.call.pad_input.buf = "padded_input"
                  THEN PaddedInputData(input_data, input.shape, p.pad_top,
                                       p.pad_bottom, p.pad_left, p.pad_right)
                  ELSE input_data } :
           \E working \in
                { ConvFunc(run.call.kernel_calls[1], run.call.kernel_args,
                           FilterValues(filter.data, Product(filter.shape)),
                           pad_input_data,
                           Zeros(Product(run.call.pad_output.shape))) } :
              /\ scratch_' = run.arena
              /\ transformed_filter_' = run.cache
              /\ output' =
                   [ shape |-> out.shape, state |-> "assembled",
                     data |-> Assemble(Zeros(Product(out.shape)), working,
                                       NeedUnpack(p.extra_output_height, p.height,
                                                  p.extra_output_width, p.width),
                                       bias, BiasValues(bias.data, p.channels), p,
                                       activation_, relux_max_limit_) ]
              /\ call' = run.call @@ [ working |-> working, bias |-> bias,
                                       input_data |-> input.data ]

NextData ==
  \E input \in DataInputs(filter.shape[2]), bias \in BiasTensors,
     junk \in UninitContents :
    InvokeData(input, bias, junk)

SpecData == InitData /\ [][NextData]_vars

(***************************************************************************)
(* Properties.  `Done` is a state right after an invocation that passed    *)
(* its checks; call then holds what that invocation computed and did.      *)
(***************************************************************************)
Done == call.status = "done"
Kernel == call.kernel_calls[1]

Is3x3 == call.filter_h = 3 /\ call.filter_w = 3
Unit(pair) == pair = <<1, 1>>
\* e is n rounded up to a multiple of m
IsRoundUp(e, n, m) == e % m = 0 /\ e >= n /\ e - n < m

\* C1: every invocation dispatches exactly one kernel, the first match of the
\* ladder Winograd (pre-transformed filter, or 3x3/stride 1/dilation 1 with both
\* channel counts >= 8), fixed 3x3 stride 1, fixed 3x3 stride 2, fixed 1x1
\* stride 1, generic direct; and the working extents are those of the tiling
\* extension that belongs to the dispatched kernel.
C1_FirstMatchDispatch ==
  Done =>
    /\ Len(call.kernel_calls) = 1
    /\ Kernel =
         (IF is_filter_transformed_
             \/ (Is3x3 /\ Unit(strides_) /\ Unit(dilations_)
                 /\ call.input_channels >= 8 /\ call.channels >= 8)
          THEN "WinoGradConv3x3s1"
          ELSE IF Is3x3 /\ Unit(strides_) /\ Unit(dilations_)
          THEN "Conv2dNeonK3x3S1"
          ELSE IF Is3x3 /\ strides_ = <<2, 2>> /\ Unit(dilations_)
          THEN "Conv2dNeonK3x3S2"
          ELSE IF call.filter_h = 1 /\ call.filter_w = 1
                  /\ Unit(strides_) /\ Unit(dilations_)
          THEN "Conv2dNeonK1x1S1"
          ELSE "Conv2dNCHW")
    /\ Kernel = "WinoGradConv3x3s1" =>
         /\ IsRoundUp(call.extra_output_height, call.height,
                      call.winograd_out_tile_size)
         /\ IsRoundUp(call.extra_output_width, call.width,
                      call.winograd_out_tile_size)
         /\ call.extra_input_height =
              Max(call.padded_input_height, call.extra_output_height + 2)
         /\ call.extra_input_width =
              Max(call.padded_input_width, call.extra_output_width + 2)
    /\ Kernel = "Conv2dNeonK3x3S1" =>
         /\ IsRoundUp(call.extra_output_height, call.height, 2)
         /\ IsRoundUp(call.extra_output_width, call.width, 4)
         /\ call.extra_input_height =
              Max(call.padded_input_height, call.extra_output_height + 2)
         /\ call.extra_input_width =
              Max(call.padded_input_width, call.extra_output_width + 2)
    /\ Kernel = "Conv2dNeonK3x3S2" =>
         /\ call.extra_output_height = call.height
         /\ IsRoundUp(call.extra_output_width, call.width, 4)
         /\ call.extra_input_height =
              Max(call.padded_input_height, 2 * call.extra_output_height + 1)
         /\ call.extra_input_width =
              Max(call.padded_input_width, 2 * call.extra_output_width + 1)
    /\ Kernel \in {"Conv2dNeonK1x1S1", "Conv2dNCHW"} =>
         /\ call.extra_output_height = call.height
         /\ call.extra_output_width = call.width
         /\ call.extra_input_height = call.padded_input_height
         /\ call.extra_input_width = call.padded_input_width

\* a 3x3/stride 1/dilation 1 call that misses Winograd on the channel count only
C1_Witness ==
  /\ Done
  /\ Kernel = "Conv2dNeonK3x3S1"
  /\ call.input_channels = 7
  /\ call.channels = 8
  /\ call.extra_output_width # call.width

\* C3: the four scratch buffers are carved in the order transformed input,
\* transformed output, padded input, padded output, from offset 0; their sizes
\* sum to the size the arena was grown to hold, they do not overlap, and no
\* scratch tensor ends up larger than the bytes carved for it.
C3_ArenaCarving ==
  Done =>
    LET b == call.carved IN
    /\ b[1].size = call.transformed_input_size
    /\ b[2].size = call.transformed_output_size
    /\ b[3].size = call.padded_input_size
    /\ b[4].size = call.padded_output_size
    /\ b[1].offset = 0
    /\ b[1].size + b[2].size + b[3].size + b[4].size = call.total_scratch_size
    /\ call.total_scratch_size <= call.grown
    /\ \A i \in 1..4 : b[i].size >= 0
    /\ \A i \in 1..4, j \in 1..4 :
         i < j => b[i].offset + b[i].size <= b[j].offset
    /\ \A i \in 1..4 : call.final_bytes[i] <= b[i].size

\* all four buffers in use, on an arena an earlier call left larger
C3_Witness ==
  /\ Done
  /\ \A i \in 1..4 : call.carved[i].size > 0 /\ call.final_bytes[i] > 0
  /\ call.grown > call.total_scratch_size

\* C5: the leading pad is floor(P/2) and no extension touches it; the trailing
\* pad is P - floor(P/2) plus the whole tiling extension; so input extent +
\* leading + trailing = extended input extent, and these are the pads the
\* materializer is called with.
C5_PadSplit ==
  Done =>
    LET Ph == call.paddings[1]
        Pw == call.paddings[2]
    IN
    /\ Ph >= 0 /\ Pw >= 0
    /\ 2 * call.pad_top <= Ph /\ Ph <= 2 * call.pad_top + 1
    /\ 2 * call.pad_left <= Pw /\ Pw <= 2 * call.pad_left + 1
    /\ call.pad_bottom = (Ph - call.pad_top)
                         + (call.extra_input_height - call.padded_input_height)
    /\ call.pad_right = (Pw - call.pad_left)
                        + (call.extra_input_width - call.padded_input_width)
    /\ call.input_height + call.pad_top + call.pad_bottom = call.extra_input_height
    /\ call.input_width + call.pad_left + call.pad_right = call.extra_input_width
    /\ \A i \in 1..Len(call.materializer_calls) :
         call.materializer_calls[i] =
           <<call.pad_top, call.pad_bottom, call.pad_left, call.pad_right>>

\* total padding 3, no extension: 1 leading and 2 trailing, in both dimensions
C5_Witness ==
  /\ Done
  /\ call.paddings = <<3, 3>>
  /\ call.extra_input_height = call.padded_input_height
  /\ call.extra_input_width = call.padded_input_width
  /\ call.materializer_calls = << <<1, 2, 1, 2>> >>

\* C6: when Conv2dNCHW is dispatched, every row and column it reads lies inside
\* the buffer it is handed (the padded copy, or the input itself), whose extents
\* are the in_height and in_width it is told; and the buffer it accumulates into
\* is all zeros when it starts.
C6_GenericInRange ==
  (Done /\ Kernel = "Conv2dNCHW") =>
    LET a == call.kernel_args IN
    /\ a.out_height = call.height /\ a.out_width = call.width
    /\ a.in_height = call.pad_input.shape[3]
    /\ a.in_width = call.pad_input.shape[4]
    /\ a.batch = call.pad_input.shape[1]
    /\ a.in_channels = call.pad_input.shape[2]
    /\ \A ih \in Conv2dNCHWRows(a.out_height, a.filter_height,
                                a.stride_h, a.dilation_h) :
         0 <= ih /\ ih < call.pad_input.shape[3]
    /\ \A iw \in Conv2dNCHWCols(a.out_width, a.filter_width,
                                a.stride_w, a.dilation_w) :
         0 <= iw /\ iw < call.pad_input.shape[4]
    /\ call.pad_output.shape = <<a.batch, a.out_channels, a.out_height, a.out_width>>
    /\ call.pad_output.state = "zero"

\* a dilated 3x3 filter over a padded copy, after the output held an earlier result
C6_Witness ==
  /\ Done
  /\ Kernel = "Conv2dNCHW"
  /\ call.pad_input.buf = "padded_input"
  /\ call.kernel_args.filter_height = 3
  /\ call.kernel_args.dilation_h = 2
  /\ call.kernel_args.stride_w = 2
  /\ call.grown > call.total_scratch_size

\* the filter's channel counts, as operator() reads them
FilterOutChannels == FilterShape(filter.shape, is_filter_transformed_)[1]
FilterInChannels == FilterShape(filter.shape, is_filter_transformed_)[2]

\* a call that touched nothing: no transform, no padded copy, no kernel, and the
\* arena and the transformed-filter cache as they were
C7_NothingDone ==
  /\ call'.status = "fatal"
  /\ call'.transform_calls = <<>>
  /\ call'.materializer_calls = <<>>
  /\ call'.kernel_calls = <<>>
  /\ scratch_' = scratch_
  /\ transformed_filter_' = transformed_filter_

C7_Invoked == call'.status \in {"done", "fatal"} /\ filter' = filter

C7_NullOrInputChannels ==
  \/ call'.input.null \/ call'.filter_null \/ call'.output_null
  \/ call'.input.shape[2] # FilterInChannels

C8_AsStated ==
  (Done /\ call.extra_input_height = call.padded_input_height
        /\ call.extra_input_width = call.padded_input_width) =>
    /\ call.materializer_calls = <<>>
    /\ call.padded_input_size = 0
    /\ call.pad_input.buf = "input"

\* C8, amended: whenever the extended input extent equals the input extent
\* itself in both dimensions (no padding and no extension), no padded copy is
\* built, the padded-input scratch size is zero and the kernel reads the
\* original input.
C8_SkipWhenNothingToPad ==
  (Done /\ call.extra_input_height = call.input_height
        /\ call.extra_input_width = call.input_width) =>
    /\ call.materializer_calls = <<>>
    /\ call.padded_input_size = 0
    /\ call.carved[3].size = 0
    /\ call.final_bytes[3] = 0
    /\ call.pad_input = [buf |-> "input", shape |-> call.input.shape]
    /\ call.kernel_args.in_height = call.input.shape[3]
    /\ call.kernel_args.in_width = call.input.shape[4]

\* a generic-direct call without padding hands the kernel the input itself
C8_Witness ==
  /\ Done
  /\ Kernel = "Conv2dNCHW"
  /\ call.paddings = <<0, 0>>
  /\ call.pad_input.buf = "input"

\* C2: of two successive Winograd invocations on the same input and filter
\* tensor, the second calls no filter transform and hands the multiply step a
\* transformed filter with the contents the first one handed it, whether or not
\* the raw filter was overwritten in between.
C2_CacheIdempotent ==
  [][ ( /\ call.status = "done" /\ call'.status = "done"
        /\ filter' = filter
        /\ Kernel = "WinoGradConv3x3s1"
        /\ call'.kernel_calls = <<"WinoGradConv3x3s1">>
        /\ call'.input = call.input )
      => /\ call'.transform_calls = <<>>
         /\ call'.filter_ptr.data = call.filter_ptr.data ]_vars

\* C9: in every Winograd invocation the transformed filter handed to the
\* multiply step is the upstream pre-transformed filter, or has
\* (tile+2)*(tile+2) x out_channels x in_channels elements and was written by
\* the transform of this call's tile size.
C9_FilterMatchesTile ==
  (Done /\ Kernel = "WinoGradConv3x3s1") =>
    \/ is_filter_transformed_ /\ call.filter_ptr.buf = "filter"
    \/ /\ call.filter_ptr.elems =
            (call.winograd_out_tile_size + 2) * (call.winograd_out_tile_size + 2)
              * call.channels * call.input_channels
       /\ call.filter_ptr.data.by =
            (IF call.winograd_out_tile_size = 2 THEN "TransformFilter4x4"
             ELSE "TransformFilter8x8")

\* C10: whenever Winograd is dispatched, the extended output extent is a
\* multiple of the tile size and at least the true extent, and the input extent
\* passed to WinoGradConv3x3s1 is the extended output extent + 2.
C10_WinogradExtents ==
  (Done /\ Kernel = "WinoGradConv3x3s1") =>
    LET t == call.kernel_args.winograd_out_tile_size IN
    /\ call.extra_output_height % t = 0
    /\ call.extra_output_width % t = 0
    /\ call.extra_output_height >= call.height
    /\ call.extra_output_width >= call.width
    /\ call.kernel_args.in_height = call.extra_output_height + 2
    /\ call.kernel_args.in_width = call.extra_output_width + 2

\* C4: after unpack, bias and activation, every element (b, c, h, w) of the true
\* output extent is activation(working[b, c, h, w] + bias[c]), bias being 0
\* without a bias tensor; nothing of the working output outside the true extent
\* takes part.
C4_Bias(c) == IF call.bias.null THEN 0 ELSE BiasValues(call.bias.data, call.channels)[c]

C4_OutputAssembly ==
  Done =>
    /\ DOMAIN output.data =
         0..(call.batch * call.channels * call.height * call.width - 1)
    /\ \A b \in 0..(call.batch - 1), c \in 0..(call.channels - 1),
          h \in 0..(call.height - 1), w \in 0..(call.width - 1) :
         output.data[((b * call.channels + c) * call.height + h) * call.width + w]
           = DoActivationAt(
               call.working[((b * call.channels + c) * call.extra_output_height + h)
                              * call.extra_output_width + w]
                 + C4_Bias(c),
               activation_, relux_max_limit_)

\* [1,1,5,5] of ones under a 3x3 filter of ones: the kernel gives 9 on the 3x3
\* true extent of a 4x4 working output, bias 2 makes 11, ReluN(5) makes 5
C4_Witness ==
  /\ Done
  /\ call.input.shape = <<1, 1, 5, 5>>
  /\ call.filter_shape = <<1, 1, 3, 3>>
  /\ Kernel = "Conv2dNeonK3x3S1"
  /\ call.pad_output.shape = <<1, 1, 4, 4>>
  /\ ~call.bias.null
  /\ activation_ = "RELUX"
  /\ call.working[0] = 9
  /\ call.working[3] # 9
  /\ \A i \in 0..8 : output.data[i] = 5

====
